---- MODULE Spec2Model ----
(***************************************************************************)
(* Day planner: the task repository (useTasks) over the persistent store   *)
(* (useLocalStorage), with the validator, the time parser and the sorter.  *)
(*                                                                         *)
(* Strings of the program are sequences of one-character strings, so that  *)
(* trimming, matching and comparing are computed and not assumed.          *)
(* The React runtime is modelled by what it does with the two hooks:       *)
(*   - a state setter called with a function queues that function as an    *)
(*     updater; the queue is applied in order while rendering, and an      *)
(*     updater that throws makes the render throw (the error is not thrown *)
(*     by the setter call);                                                *)
(*   - an effect runs after the first render and again after every render  *)
(*     in which one of its dependencies has a new identity;                *)
(*   - pending effects are flushed before the next operation is handled.   *)
(***************************************************************************)
EXTENDS Integers, Sequences, FiniteSets, TLC

\* ------------------------------------------------------------------ bounds
\* number of ids generateTaskId hands out in a run, so the number of adds that
\* pass validation
MaxIds == 3
\* add is offered while the collection holds fewer tasks than this
MaxTasks == 3
\* the time functions are tried on hours 0..MaxHourTried and minutes
\* 0..MaxMinuteTried, so beyond 23 and 59
MaxHourTried == 25
MaxMinuteTried == 61

\* ------------------------------------------------------------- characters
Digits == {"0", "1", "2", "3", "4", "5", "6", "7", "8", "9"}

DigitVal(c) ==
    CASE c = "0" -> 0 [] c = "1" -> 1 [] c = "2" -> 2 [] c = "3" -> 3
      [] c = "4" -> 4 [] c = "5" -> 5 [] c = "6" -> 6 [] c = "7" -> 7
      [] c = "8" -> 8 [] c = "9" -> 9

DigitChar(n) ==
    CASE n = 0 -> "0" [] n = 1 -> "1" [] n = 2 -> "2" [] n = 3 -> "3"
      [] n = 4 -> "4" [] n = 5 -> "5" [] n = 6 -> "6" [] n = 7 -> "7"
      [] n = 8 -> "8" [] n = 9 -> "9"

\* \s of the regular expressions and of String.prototype.trim, on the alphabet used
IsSpace(c) == c \in {" ", "\t"}

\* String.prototype.toUpperCase on the letters of the meridiem
toUpperCase(c) ==
    CASE c = "a" -> "A" [] c = "p" -> "P" [] c = "m" -> "M" [] OTHER -> c

RECURSIVE TrimStart(_)
TrimStart(s) ==
    IF s # <<>> /\ IsSpace(Head(s)) THEN TrimStart(Tail(s)) ELSE s

RECURSIVE TrimEnd(_)
TrimEnd(s) ==
    IF s # <<>> /\ IsSpace(s[Len(s)]) THEN TrimEnd(SubSeq(s, 1, Len(s) - 1)) ELSE s

\* String.prototype.trim
trim(s) == TrimEnd(TrimStart(s))

\* parseInt(str, 10) on a string of digits
RECURSIVE parseInt(_)
parseInt(s) ==
    IF s = <<>> THEN 0
    ELSE 10 * parseInt(SubSeq(s, 1, Len(s) - 1)) + DigitVal(s[Len(s)])

\* n.toString().padStart(2, '0') for 0 <= n <= 99
padStart2(n) == <<DigitChar(n \div 10), DigitChar(n % 10)>>

\* ------------------------------------------------------------ time parser
ErrTimeRequired == "Time is required"
ErrHour12 == "Hour must be between 1 and 12 for AM/PM format"
\* the 24-hour hour error taken for the 12-hour one
ErrHour24AsTwelve == "Hour must be between 1 and 12 for AM/PM format"
ErrHour24 == "Hour must be between 00 and 23 for 24-hour format"
ErrMinutes == "Minutes must be between 00 and 59"
ErrTimeFormat == "Invalid time format. Use formats like \"9:30\", \"09:30\", \"9:30 AM\", or \"21:30\""

\* the common prefix of both patterns, ^(\d{1,2}):(\d{2}) : position of the colon, 0 if none
ColonAt(s) ==
    IF \E p \in {2, 3} :
          /\ Len(s) >= p + 2
          /\ \A i \in 1..(p - 1) : s[i] \in Digits
          /\ s[p] = ":"
          /\ s[p + 1] \in Digits /\ s[p + 2] \in Digits
    THEN CHOOSE p \in {2, 3} :
          /\ Len(s) >= p + 2
          /\ \A i \in 1..(p - 1) : s[i] \in Digits
          /\ s[p] = ":"
          /\ s[p + 1] \in Digits /\ s[p + 2] \in Digits
    ELSE 0

\* the text after the minutes
AfterMinutes(s) == SubSeq(s, ColonAt(s) + 3, Len(s))

\* /^(\d{1,2}):(\d{2})\s*(AM|PM)$/i
amPmMatch(s) ==
    /\ ColonAt(s) # 0
    /\ LET r == AfterMinutes(s) IN
        /\ Len(r) >= 2
        /\ toUpperCase(r[Len(r) - 1]) \in {"A", "P"}
        /\ toUpperCase(r[Len(r)]) = "M"
        /\ \A i \in 1..(Len(r) - 2) : IsSpace(r[i])

\* /^(\d{1,2}):(\d{2})$/
twentyFourHourMatch(s) == ColonAt(s) # 0 /\ AfterMinutes(s) = <<>>

hourStr(s) == SubSeq(s, 1, ColonAt(s) - 1)
minuteStr(s) == SubSeq(s, ColonAt(s) + 1, ColonAt(s) + 2)
\* a meridiem that is always read as AM
periodAlwaysAM(s) == <<"A", "M">>
period(s) == <<toUpperCase(s[Len(s) - 1]), toUpperCase(s[Len(s)])>>

ParseOk(t) == [success |-> TRUE, time |-> t, error |-> ""]
ParseFail(e) == [success |-> FALSE, time |-> <<>>, error |-> e]

parseTime(input) ==
    IF input = <<>> THEN ParseFail(ErrTimeRequired)
    ELSE LET trimmedInput == trim(input) IN
      IF trimmedInput = <<>> THEN ParseFail(ErrTimeRequired)
      ELSE IF amPmMatch(trimmedInput) THEN
        LET hour == parseInt(hourStr(trimmedInput))
            minute == parseInt(minuteStr(trimmedInput))
            hour24 == IF period(trimmedInput) = <<"P", "M">> /\ hour # 12 THEN hour + 12
                      ELSE IF period(trimmedInput) = <<"A", "M">> /\ hour = 12 THEN 0
                      ELSE hour
        IN IF hour < 1 \/ hour > 12 THEN ParseFail(ErrHour12)
           ELSE IF minute < 0 \/ minute > 59 THEN ParseFail(ErrMinutes)
           ELSE ParseOk(padStart2(hour24) \o <<":">> \o padStart2(minute))
      ELSE IF twentyFourHourMatch(trimmedInput) THEN
        LET hour == parseInt(hourStr(trimmedInput))
            minute == parseInt(minuteStr(trimmedInput))
        IN IF hour < 0 \/ hour > 23 THEN ParseFail(ErrHour24)
           ELSE IF minute < 0 \/ minute > 59 THEN ParseFail(ErrMinutes)
           ELSE ParseOk(padStart2(hour) \o <<":">> \o padStart2(minute))
      ELSE ParseFail(ErrTimeFormat)

\* isValidTimeFormat that accepts whatever parseTime parses
isValidTimeFormatParses(time) == time # <<>> /\ parseTime(time).success

isValidTimeFormat(time) ==
    IF time = <<>> THEN FALSE
    ELSE LET result == parseTime(time) IN result.success /\ result.time = time

\* n.toString() for 0 <= n <= 99
toString(n) == IF n < 10 THEN <<DigitChar(n)>> ELSE <<DigitChar(n \div 10), DigitChar(n % 10)>>

\* time.split(':'): the text before the first colon and the text after it
\* (a time that isValidTimeFormat accepts has one colon)
splitColon(time) ==
    LET at == CHOOSE i \in 1..Len(time) :
                  time[i] = ":" /\ \A j \in 1..(i - 1) : time[j] # ":"
    IN <<SubSeq(time, 1, at - 1), SubSeq(time, at + 1, Len(time))>>

\* formatTimeForDisplay that leaves the hour as it is
formatTimeForDisplayKeepsHour(time) ==
    IF ~isValidTimeFormat(time) THEN time
    ELSE LET hour == parseInt(splitColon(time)[1])
             minute == parseInt(splitColon(time)[2])
         IN toString(hour) \o <<":">> \o padStart2(minute) \o <<" ">>
               \o (IF hour >= 12 THEN <<"P", "M">> ELSE <<"A", "M">>)

formatTimeForDisplay(time) ==
    IF ~isValidTimeFormat(time) THEN time
    ELSE LET hour == parseInt(splitColon(time)[1])
             minute == parseInt(splitColon(time)[2])
             displayHour == IF hour = 0 THEN 12 ELSE IF hour > 12 THEN hour - 12 ELSE hour
         IN toString(displayHour) \o <<":">> \o padStart2(minute) \o <<" ">>
               \o (IF hour >= 12 THEN <<"P", "M">> ELSE <<"A", "M">>)

\* a JavaScript value handed to the time functions: a string, or something
\* that is not one (null, undefined)
StringValue(chars) == [isString |-> TRUE, chars |-> chars]
NonStringValue == [isString |-> FALSE, chars |-> <<>>]

\* parseTime and isValidTimeFormat from their first line on: typeof input !== 'string'
parseTimeOfValue(value) ==
    IF ~value.isString THEN ParseFail(ErrTimeRequired) ELSE parseTime(value.chars)

isValidTimeFormatOfValue(value) ==
    IF ~value.isString THEN FALSE ELSE isValidTimeFormat(value.chars)

\* --------------------------------------------------------------- validator
\* an absent (undefined) priority
undefined == "undefined"

MaxTitleLength == 200

ValidationError(f, m) == [field |-> f, message |-> m]

\* validateTimeField that goes on to the format check after "Time is required"
validateTimeFieldChecksOn(time) ==
    (IF time = <<>> \/ trim(time) = <<>>
     THEN <<ValidationError("time", ErrTimeRequired)>> ELSE <<>>)
    \o (IF ~parseTime(time).success
        THEN <<ValidationError("time", parseTime(time).error)>> ELSE <<>>)

validateTimeField(time) ==
    IF time = <<>> \/ trim(time) = <<>>
    THEN <<ValidationError("time", ErrTimeRequired)>>
    ELSE LET parseResult == parseTime(time)
         IN IF ~parseResult.success
            THEN <<ValidationError("time", parseResult.error)>>
            ELSE <<>>

\* validateTitleField without its checks
validateTitleFieldAcceptsAll(title) == <<>>

validateTitleField(title) ==
    LET trimmedTitle == trim(title)
    IN IF trimmedTitle = <<>>
       THEN <<ValidationError("title", "Title cannot be empty")>>
       ELSE (IF Len(trimmedTitle) > MaxTitleLength
             THEN <<ValidationError("title", "Title must be 200 characters or less")>>
             ELSE <<>>)
            \o (IF Len(trimmedTitle) < 1
                THEN <<ValidationError("title", "Title must be at least 1 character long")>>
                ELSE <<>>)

validatePriorityField(priority) ==
    IF priority = undefined THEN <<>>
    ELSE IF priority \notin {"low", "medium", "high"}
         THEN <<ValidationError("priority", "Priority must be one of: low, medium, high")>>
         ELSE <<>>

validateTaskFormData(formData) ==
    validateTimeField(formData.time)
        \o validateTitleField(formData.title)
        \o validatePriorityField(formData.priority)

\* sanitizeTaskFormData that trims and does not normalize the time
sanitizeTaskFormDataTrimOnly(formData) ==
    [time |-> trim(formData.time), title |-> trim(formData.title),
     priority |-> formData.priority]

sanitizeTaskFormData(formData) ==
    LET trimmedTime == trim(formData.time)
        timeParseResult == parseTime(trimmedTime)
    IN [time |-> IF timeParseResult.success /\ timeParseResult.time # <<>>
                 THEN timeParseResult.time ELSE trimmedTime,
        title |-> trim(formData.title),
        priority |-> formData.priority]

validateAndSanitizeTaskFormData(formData) ==
    LET sanitizedData == sanitizeTaskFormData(formData)
        errors == validateTaskFormData(sanitizedData)
    IN [sanitizedData |-> sanitizedData, errors |-> errors, isValid |-> Len(errors) = 0]

\* ------------------------------------------------------------------ sorter
PRIORITY_ORDER(p) == CASE p = "high" -> 3 [] p = "medium" -> 2 [] p = "low" -> 1

\* collation rank of a character: white space, then punctuation, then digits
\* in numeric order, then letters (times held by tasks are digits and a colon)
CharRank(c) ==
    IF c \in Digits THEN 10 + DigitVal(c)
    ELSE IF IsSpace(c) THEN 1
    ELSE IF c = ":" THEN 2
    ELSE 30

\* String.prototype.localeCompare: negative, zero or positive
RECURSIVE localeCompare(_, _)
localeCompare(a, b) ==
    IF a = <<>> /\ b = <<>> THEN 0
    ELSE IF a = <<>> THEN -1
    ELSE IF b = <<>> THEN 1
    ELSE IF CharRank(Head(a)) < CharRank(Head(b)) THEN -1
    ELSE IF CharRank(Head(a)) > CharRank(Head(b)) THEN 1
    ELSE localeCompare(Tail(a), Tail(b))

\* a.priority || 'low'
PriorityOrLow(p) == IF p = undefined THEN "low" ELSE p

\* the comparator sortTasks hands to Array.prototype.sort
compareTasks(a, b) ==
    LET timeComparison == localeCompare(a.time, b.time)
        aPriority == PRIORITY_ORDER(PriorityOrLow(a.priority))
        bPriority == PRIORITY_ORDER(PriorityOrLow(b.priority))
    IN IF timeComparison # 0 THEN timeComparison
       ELSE IF aPriority # bPriority THEN bPriority - aPriority
       ELSE a.createdAt - b.createdAt

\* a sort that is not stable: an element goes before the elements it ties with
InsertSortedBeforeTies(sorted, t) ==
    LET after == {i \in 1..Len(sorted) : compareTasks(sorted[i], t) >= 0}
        pos == IF after = {} THEN Len(sorted) + 1
               ELSE CHOOSE i \in after : \A j \in after : i <= j
    IN SubSeq(sorted, 1, pos - 1) \o <<t>> \o SubSeq(sorted, pos, Len(sorted))

\* Array.prototype.sort is stable: an element goes after every element that
\* does not compare greater than it
InsertSorted(sorted, t) ==
    LET after == {i \in 1..Len(sorted) : compareTasks(sorted[i], t) > 0}
        pos == IF after = {} THEN Len(sorted) + 1
               ELSE CHOOSE i \in after : \A j \in after : i <= j
    IN SubSeq(sorted, 1, pos - 1) \o <<t>> \o SubSeq(sorted, pos, Len(sorted))

\* the elements of ts from the i-th on, inserted one by one into sorted
\* (each intermediate sequence is evaluated once, as the elements of a set are)
RECURSIVE SortFrom(_, _, _)
SortFrom(sorted, ts, i) ==
    IF i > Len(ts) THEN sorted
    ELSE CHOOSE r \in {SortFrom(s, ts, i + 1) : s \in {InsertSorted(sorted, ts[i])}} : TRUE

\* sortTasks without the sort
sortTasksKeepsOrder(tasks) == tasks

\* [...tasks].sort(comparator): a new sequence, the argument is not changed
sortTasks(tasks) == CHOOSE sorted \in {SortFrom(<<>>, ts, 1) : ts \in {tasks}} : TRUE

\* isTaskListSorted without the check of createdAt
isTaskListSortedByTimeAndPriority(tasks) ==
    \A i \in 2..Len(tasks) :
        LET timeComparison == localeCompare(tasks[i - 1].time, tasks[i].time)
        IN /\ ~(timeComparison > 0)
           /\ timeComparison = 0 =>
                ~(PRIORITY_ORDER(PriorityOrLow(tasks[i - 1].priority))
                     < PRIORITY_ORDER(PriorityOrLow(tasks[i].priority)))

isTaskListSorted(tasks) ==
    \A i \in 2..Len(tasks) :
        LET prev == tasks[i - 1]
            curr == tasks[i]
            timeComparison == localeCompare(prev.time, curr.time)
            prevPriority == PRIORITY_ORDER(PriorityOrLow(prev.priority))
            currPriority == PRIORITY_ORDER(PriorityOrLow(curr.priority))
        IN /\ ~(timeComparison > 0)
           /\ timeComparison = 0 =>
                /\ ~(prevPriority < currPriority)
                /\ ~(prevPriority = currPriority /\ prev.createdAt > curr.createdAt)

\* ---------------------------------------------------------------- the store
STORAGE_KEY == "dayPlannerTasks"

\* the error state of useLocalStorage when no error is reported
null == "null"

ErrCorrupted == "Data was corrupted and has been reset"
ErrInaccessible == "Unable to access localStorage"
ErrQuota == "Storage quota exceeded. Please clear some data."
ErrAccess == "Unable to access localStorage. Data will not persist."
ErrSaveFailed == "Failed to save data to localStorage"
ErrSaveUnknown == "Unknown error occurred while saving data"

\* what localStorage holds under STORAGE_KEY: nothing, the text of a JSON
\* array, or a text JSON.parse rejects
StoreAbsent == [kind |-> "absent", arr |-> <<>>, text |-> ""]
StoreJson(a) == [kind |-> "json", arr |-> a, text |-> ""]
StoreText(t) == [kind |-> "text", arr |-> <<>>, text |-> t]

\* a Task as JSON.stringify writes it: a property whose value is undefined is left out
JsonOfTask(t) ==
    IF t.priority = undefined
    THEN [id |-> t.id, time |-> t.time, title |-> t.title, createdAt |-> t.createdAt]
    ELSE [id |-> t.id, time |-> t.time, title |-> t.title, priority |-> t.priority,
          createdAt |-> t.createdAt]

\* a Task as JSON.parse reads it: a property that is left out reads as undefined
TaskOfJson(j) ==
    [id |-> j.id, time |-> j.time, title |-> j.title,
     priority |-> IF "priority" \in DOMAIN j THEN j.priority ELSE undefined,
     createdAt |-> j.createdAt]

\* the argument of setValue: a plain value, or (as useTasks passes) a function
ArrValue(a) == [kind |-> "val", arr |-> a, updater |-> [op |-> "none"]]
FnValue(u) == [kind |-> "fn", arr |-> <<>>, updater |-> u]

\* JSON.stringify that has no text for any value
JSONstringifyNothing(value) == StoreText("undefined")

\* JSON.stringify(value) followed by setItem's conversion of its argument to a
\* string: a function stringifies to undefined, which is stored as "undefined"
JSONstringify(value) ==
    IF value.kind = "fn" THEN StoreText("undefined")
    ELSE StoreJson([i \in 1..Len(value.arr) |-> JsonOfTask(value.arr[i])])

\* JSON.parse that reads any text as the empty array
JSONparseAcceptsAll(item) == [threw |-> FALSE, val |-> <<>>]

\* JSON.parse(item)
JSONparse(item) ==
    IF item.kind = "json"
    THEN [threw |-> FALSE, val |-> [i \in 1..Len(item.arr) |-> TaskOfJson(item.arr[i])]]
    ELSE [threw |-> TRUE, val |-> <<>>]

\* what setItem does: returns, or throws one of these values
SetItemOk == [threw |-> FALSE, isError |-> FALSE, name |-> "", hasQuota |-> FALSE, hasAccess |-> FALSE]
ThrowQuotaExceeded == [threw |-> TRUE, isError |-> TRUE, name |-> "QuotaExceededError", hasQuota |-> FALSE, hasAccess |-> FALSE]
ThrowQuotaMessage == [threw |-> TRUE, isError |-> TRUE, name |-> "Error", hasQuota |-> TRUE, hasAccess |-> FALSE]
ThrowAccessMessage == [threw |-> TRUE, isError |-> TRUE, name |-> "Error", hasQuota |-> FALSE, hasAccess |-> TRUE]
ThrowOtherError == [threw |-> TRUE, isError |-> TRUE, name |-> "Error", hasQuota |-> FALSE, hasAccess |-> FALSE]
ThrowNonError == [threw |-> TRUE, isError |-> FALSE, name |-> "", hasQuota |-> FALSE, hasAccess |-> FALSE]

SetItemOutcomes ==
    {SetItemOk, ThrowQuotaExceeded, ThrowQuotaMessage, ThrowAccessMessage,
     ThrowOtherError, ThrowNonError}

\* the outcomes of setItem the operations are run with
WriteOutcomes == {SetItemOk, ThrowQuotaExceeded}

\* String.prototype.includes: searchString occurs in s at some position
RECURSIVE includes(_, _)
includes(s, searchString) ==
    IF Len(s) < Len(searchString) THEN FALSE
    ELSE IF SubSeq(s, 1, Len(searchString)) = searchString THEN TRUE
    ELSE includes(Tail(s), searchString)

\* an Error with this name and message, thrown by setItem
ErrorValue(name, message) ==
    [threw |-> TRUE, isError |-> TRUE, name |-> name,
     hasQuota |-> includes(message, <<"q", "u", "o", "t", "a">>),
     hasAccess |-> includes(message, <<"a", "c", "c", "e", "s", "s">>)]

\* the names and messages of the errors setItem is made to throw
ErrorNames == {"QuotaExceededError", "Error", "SecurityError"}
ErrorMessages ==
    { <<"Q", "u", "o", "t", "a", "E", "x", "c", "e", "e", "d", "e", "d", "E", "r", "r", "o", "r">>,
      <<"S", "t", "o", "r", "a", "g", "e", " ", "q", "u", "o", "t", "a", " ", "h", "a", "s", " ", "b", "e", "e", "n", " ", "e", "x", "c", "e", "e", "d", "e", "d">>,
      <<"A", "c", "c", "e", "s", "s", " ", "d", "e", "n", "i", "e", "d", " ", "t", "o", " ", "l", "o", "c", "a", "l", "S", "t", "o", "r", "a", "g", "e">>,
      <<"S", "o", "m", "e", " ", "o", "t", "h", "e", "r", " ", "e", "r", "r", "o", "r">>,
      <<"T", "e", "s", "t", " ", "e", "r", "r", "o", "r">>,
      <<>>,
      <<"q", "u", "o", "t", "a">>,
      <<"a", "c", "c", "e", "s", "s">>,
      <<"n", "o", " ", "a", "c", "c", "e", "s", "s", ":", " ", "q", "u", "o", "t", "a", " ", "e", "x", "c", "e", "e", "d", "e", "d">>,
      <<"Q", "u", "o", "t", "a">>,
      <<"a", "c", "c", "e", "s", " ", "q", "u", "o", "t">> }

\* the catch block of setValue with the branches for "access" and "quota" swapped
saveErrorMessageAccessFirst(err) ==
    IF err.isError
    THEN IF err.hasAccess THEN ErrAccess
         ELSE IF err.name = "QuotaExceededError" \/ err.hasQuota THEN ErrQuota
         ELSE ErrSaveFailed
    ELSE ErrSaveUnknown

\* a catch block of setValue that sets no error
saveErrorMessageNone(err) == null

\* the catch block of setValue
saveErrorMessage(err) ==
    IF err.isError
    THEN IF err.name = "QuotaExceededError" \/ err.hasQuota THEN ErrQuota
         ELSE IF err.hasAccess THEN ErrAccess
         ELSE ErrSaveFailed
    ELSE ErrSaveUnknown

\* ----------------------------------------------------------- the repository
Ids(tasks) == {tasks[i].id : i \in 1..Len(tasks)}

\* prevTasks.filter(task => task.id !== id)
filterOut(tasks, id) == SelectSeq(tasks, LAMBDA task : task.id # id)

\* prevTasks.findIndex(task => task.id === id), 0 when there is none
findIndex(tasks, id) ==
    IF id \in Ids(tasks)
    THEN CHOOSE i \in 1..Len(tasks) :
            tasks[i].id = id /\ \A j \in 1..(i - 1) : tasks[j].id # id
    ELSE 0

AddUpdater(newTask) == [op |-> "add", task |-> newTask]
UpdateUpdater(id, sanitizedData) == [op |-> "update", id |-> id, data |-> sanitizedData]
DeleteUpdater(id) == [op |-> "delete", id |-> id]

\* prevTasks => sortTasks([...prevTasks, newTask])
addTaskUpdater(prevTasks, newTask) ==
    [threw |-> FALSE, val |-> sortTasks(prevTasks \o <<newTask>>)]

\* the updater of updateTask without the re-sort
UpdatedTasksNotSorted(prevTasks, taskIndex, sanitizedData) ==
    [prevTasks EXCEPT ![taskIndex] =
        [id |-> prevTasks[taskIndex].id,
         time |-> sanitizedData.time,
         title |-> sanitizedData.title,
         priority |-> sanitizedData.priority,
         createdAt |-> prevTasks[taskIndex].createdAt]]

\* the body of the updater of updateTask
UpdatedTasks(prevTasks, taskIndex, sanitizedData) ==
    LET existingTask == prevTasks[taskIndex]
        updatedTask == [id |-> existingTask.id,
                        time |-> sanitizedData.time,
                        title |-> sanitizedData.title,
                        priority |-> sanitizedData.priority,
                        createdAt |-> existingTask.createdAt]
        updatedTasks == [prevTasks EXCEPT ![taskIndex] = updatedTask]
    IN sortTasks(updatedTasks)

\* the updater of updateTask
updateTaskUpdater(prevTasks, id, sanitizedData) ==
    LET taskIndex == findIndex(prevTasks, id)
    IN IF taskIndex = 0 THEN [threw |-> TRUE, val |-> prevTasks]
       ELSE [threw |-> FALSE, val |-> UpdatedTasks(prevTasks, taskIndex, sanitizedData)]

\* the updater of deleteTask
deleteTaskUpdater(prevTasks, id) ==
    IF id \notin Ids(prevTasks) THEN [threw |-> TRUE, val |-> prevTasks]
    ELSE [threw |-> FALSE, val |-> filterOut(prevTasks, id)]

\* one queued state update applied to the state before it
ApplyUpdate(prevTasks, value) ==
    IF value.kind = "val" THEN [threw |-> FALSE, val |-> value.arr]
    ELSE IF value.updater.op = "add" THEN addTaskUpdater(prevTasks, value.updater.task)
    ELSE IF value.updater.op = "update"
         THEN updateTaskUpdater(prevTasks, value.updater.id, value.updater.data)
    ELSE deleteTaskUpdater(prevTasks, value.updater.id)

\* rendering applies the queued updates of setStoredValue in order; an
\* updater that throws makes the render throw
RECURSIVE ProcessQueue(_, _)
ProcessQueue(state, queue) ==
    IF queue = <<>> THEN [threw |-> FALSE, val |-> state]
    ELSE CHOOSE result \in
            { IF r.threw THEN r ELSE ProcessQueue(r.val, Tail(queue)) :
                r \in {ApplyUpdate(state, Head(queue))} } : TRUE

\* setValue: what it queues for storedValue, what the store holds and what the
\* error is afterwards, given what setItem does
setValue(value, outcome, curStore) ==
    IF ~outcome.threw
    THEN [queue |-> <<value>>, store |-> JSONstringify(value), error |-> null]
    ELSE [queue |-> <<value, value>>, store |-> curStore,
          error |-> saveErrorMessage(outcome)]

\* ------------------------------------------------------------------- state
VARIABLES
    storedValue,    \* useLocalStorage: the value last rendered (the task collection)
    error,          \* useLocalStorage: the error last rendered, or null
    store,          \* localStorage under STORAGE_KEY
    mounted,        \* FALSE once a render has thrown and the tree is gone
    effectPending,  \* the load effect is due: its dependencies changed in the last render
    firstRender,    \* no render has happened since the mount
    clock,          \* the last value Date.now() returned
    nextId,         \* the next id generateTaskId returns
    clean,          \* no operation and no store call has failed so far
    last,           \* what the current render comes from: a call and how it went, or the effect
    beforeReload    \* the collection rendered when the page was last reloaded

vars == <<storedValue, error, store, mounted, effectPending, firstRender,
          clock, nextId, clean, last, beforeReload>>

\* the form inputs tried
FormInputs ==
    { [time |-> <<"1", "4", ":", "0", "0">>, title |-> <<"A">>, priority |-> "low"],
      [time |-> <<" ", "9", ":", "0", "0", " ", "a", "m", " ">>, title |-> <<" ", "B", " ">>,
       priority |-> undefined],
      [time |-> <<"9", ":", "0", "0">>, title |-> <<"A">>, priority |-> "high"],
      [time |-> <<"2", "5", ":", "0", "0">>, title |-> <<>>, priority |-> "medium"],
      [time |-> <<"0", "9", ":", "6", "0">>, title |-> <<" ", " ">>, priority |-> "urgent"] }

\* an id no task ever has
MissingId == MaxIds + 2

\* the ids update and delete are called with: those of the collection and a missing one
TargetIds == Ids(storedValue) \cup {MissingId}

SeedTask ==
    [id |-> MaxIds + 1, time |-> <<"0", "9", ":", "0", "0">>, title |-> <<"S">>,
     priority |-> undefined, createdAt |-> 0]

\* what the store may hold when the page is first opened
InitialStores ==
    { StoreAbsent,
      StoreJson(<<>>),
      StoreJson(<<JsonOfTask(SeedTask)>>),
      StoreText("invalid-json{") }

\* validateAndSanitizeTaskFormData on each of the form inputs, computed once
validationResults == [d \in FormInputs |-> validateAndSanitizeTaskFormData(d)]

\* the arguments of a call that has none
NoArguments == [id |-> 0, data |-> [time |-> <<>>, title |-> <<>>, priority |-> undefined]]

\* a call, its arguments and how it went: "ok", "validation" (it threw the
\* validation Error, whose messages are thrown) or "notfound" (its updater
\* threw while rendering)
Call(op, arguments, result, writeOk, thrown) ==
    [op |-> op, arguments |-> arguments, result |-> result, writeOk |-> writeOk,
     thrown |-> thrown]

NotReloaded == [reloaded |-> FALSE, tasks |-> <<>>, clean |-> FALSE]

Init ==
    /\ storedValue = <<>>
    /\ error = null
    /\ store \in InitialStores
    /\ mounted = TRUE
    /\ effectPending = TRUE
    /\ firstRender = TRUE
    /\ clock = 0
    /\ nextId = 1
    /\ clean = TRUE
    /\ last = Call("mount", NoArguments, "ok", TRUE, <<>>)
    /\ beforeReload = NotReloaded

\* an operation is handled once the tree is mounted and its effects are flushed
Ready == mounted /\ ~effectPending

\* the render after setTasks(value): the queue is applied; a throwing updater
\* unmounts the tree (App has no error boundary above it) and the state of the
\* hooks goes with it; otherwise the new state is committed and, initialValue
\* being a new array in every render, the load effect is due again
Render(w) ==
    \E r \in {ProcessQueue(storedValue, w.queue)} :
       /\ store' = w.store
       /\ IF r.threw
          THEN /\ mounted' = FALSE
               /\ effectPending' = FALSE
               /\ storedValue' = <<>>
               /\ error' = null
          ELSE /\ storedValue' = r.val
               /\ error' = w.error
               /\ effectPending' = TRUE
               /\ UNCHANGED mounted
       /\ firstRender' = FALSE
          /\ beforeReload' = NotReloaded

\* the Error addTask and updateTask throw when validation fails: its message
\* joins the messages of all the errors
ValidationFailure(errors) == [i \in 1..Len(errors) |-> errors[i].message]

ThrowValidation(op, arguments, errors) ==
    /\ last' = Call(op, arguments, "validation", TRUE, ValidationFailure(errors))
    /\ clean' = FALSE
    /\ beforeReload' = NotReloaded
    /\ UNCHANGED <<storedValue, error, store, mounted, effectPending, firstRender,
                   clock, nextId>>

\* generateTaskId: task_<Date.now()>_<random>, taken to be an id not handed out before
generateTaskId == nextId

\* the task addTask builds from the sanitized data
NewTask(sanitizedData, now) ==
    [id |-> generateTaskId,
     time |-> sanitizedData.time,
     title |-> sanitizedData.title,
     priority |-> sanitizedData.priority,
     createdAt |-> now]

\* now is what Date.now() returns
AddTask(taskData, outcome, now) ==
    /\ Ready
    /\ LET validationResult == validationResults[taskData]
       IN IF ~validationResult.isValid
          THEN /\ outcome = SetItemOk /\ now = clock
               /\ ThrowValidation("add", [id |-> 0, data |-> taskData], validationResult.errors)
          ELSE /\ nextId <= MaxIds
               /\ Len(storedValue) < MaxTasks
               /\ nextId' = nextId + 1
               /\ clock' = now
               /\ clean' = (clean /\ ~outcome.threw)
               /\ last' = Call("add", [id |-> 0, data |-> taskData], "ok", ~outcome.threw, <<>>)
               /\ Render(setValue(FnValue(AddUpdater(NewTask(validationResult.sanitizedData, now))),
                                  outcome, store))

UpdateTask(id, taskData, outcome) ==
    /\ Ready
    /\ LET validationResult == validationResults[taskData]
       IN IF ~validationResult.isValid
          THEN /\ outcome = SetItemOk
               /\ ThrowValidation("update", [id |-> id, data |-> taskData], validationResult.errors)
          ELSE /\ Render(setValue(FnValue(UpdateUpdater(id, validationResult.sanitizedData)),
                                  outcome, store))
               /\ last' = Call("update", [id |-> id, data |-> taskData],
                               IF mounted' THEN "ok" ELSE "notfound", ~outcome.threw, <<>>)
               /\ clean' = (clean /\ ~outcome.threw /\ mounted')
               /\ UNCHANGED <<clock, nextId>>

DeleteTask(id, outcome) ==
    /\ Ready
    /\ Render(setValue(FnValue(DeleteUpdater(id)), outcome, store))
    /\ last' = Call("delete", [id |-> id, data |-> NoArguments.data],
                    IF mounted' THEN "ok" ELSE "notfound", ~outcome.threw, <<>>)
    /\ clean' = (clean /\ ~outcome.threw /\ mounted')
    /\ UNCHANGED <<clock, nextId>>

ClearAllTasks(outcome) ==
    /\ Ready
    /\ Render(setValue(ArrValue(<<>>), outcome, store))
    /\ last' = Call("clearAll", NoArguments, "ok", ~outcome.threw, <<>>)
    /\ clean' = (clean /\ ~outcome.threw)
    /\ UNCHANGED <<clock, nextId>>

\* the load effect of useLocalStorage; removeOk is whether removeItem returns
LoadEffect(removeOk) ==
    /\ mounted /\ effectPending
    /\ LET item == store
           parsed == JSONparse(item)
       IN IF item.kind = "absent"
          THEN /\ removeOk
               /\ effectPending' = FALSE
               /\ UNCHANGED <<storedValue, error, store, firstRender, clean>>
          ELSE IF ~parsed.threw
          THEN /\ removeOk
               /\ storedValue' = parsed.val
               /\ error' = null
               /\ effectPending' = TRUE
               /\ firstRender' = FALSE
               /\ UNCHANGED <<store, clean>>
          ELSE /\ store' = IF removeOk THEN StoreAbsent ELSE store
               /\ error' = IF removeOk THEN ErrCorrupted ELSE ErrInaccessible
               /\ storedValue' = <<>>
               /\ effectPending' = (error' # error \/ ~firstRender)
               /\ firstRender' = (firstRender /\ ~effectPending')
               /\ clean' = (clean /\ removeOk)
    /\ last' = Call("effect", NoArguments, "ok", TRUE, <<>>)
    /\ UNCHANGED <<mounted, clock, nextId, beforeReload>>

\* the page is loaded again: a new tree over the same store
Reload ==
    /\ storedValue' = <<>>
    /\ error' = null
    /\ mounted' = TRUE
    /\ effectPending' = TRUE
    /\ firstRender' = TRUE
    /\ last' = Call("reload", NoArguments, "ok", TRUE, <<>>)
    /\ beforeReload' = [reloaded |-> TRUE, tasks |-> storedValue,
                        clean |-> clean /\ mounted /\ last.op \notin {"mount", "reload"}]
    /\ UNCHANGED <<store, clock, nextId, clean>>

Next ==
    \/ \E d \in FormInputs, o \in WriteOutcomes, now \in {clock, clock + 1} : AddTask(d, o, now)
    \/ \E i \in TargetIds, d \in FormInputs, o \in WriteOutcomes : UpdateTask(i, d, o)
    \/ \E i \in TargetIds, o \in WriteOutcomes : DeleteTask(i, o)
    \/ \E o \in WriteOutcomes : ClearAllTasks(o)
    \/ \E removeOk \in BOOLEAN : LoadEffect(removeOk)
    \/ Reload

Spec == Init /\ [][Next]_vars

\* React runs an effect that is due
LiveSpec == Spec /\ WF_vars(\E removeOk \in BOOLEAN : LoadEffect(removeOk))

\* everything setItem may do
SaveOutcomes ==
    {SetItemOk, ThrowNonError}
        \cup {ErrorValue(name, message) : name \in ErrorNames, message \in ErrorMessages}

\* the form the store is exercised with
PlainForm == [time |-> <<"1", "4", ":", "0", "0">>, title |-> <<"A">>, priority |-> "low"]

\* the store under everything setItem may throw: writes of a plain value
\* (clearAllTasks), writes of an updater (addTask), loads and reloads
StorageNext ==
    \/ \E o \in SaveOutcomes : ClearAllTasks(o)
    \/ \E o \in SaveOutcomes : AddTask(PlainForm, o, clock)
    \/ \E removeOk \in BOOLEAN : LoadEffect(removeOk)
    \/ Reload

StorageSpec == Init /\ [][StorageNext]_vars

\* ------------------------------------------------- the time functions alone
\* the text of an hour as typed: one digit, or two with padded
HourText(h, padded) == IF padded THEN padStart2(h) ELSE toString(h)

\* how the meridiem of a 12-hour input is typed: the white space around the
\* text and before the meridiem, and the letters of AM and PM
Layouts ==
    { [lead |-> <<>>, gap |-> <<" ">>, am |-> <<"A", "M">>, pm |-> <<"P", "M">>, trail |-> <<>>],
      [lead |-> <<>>, gap |-> <<>>, am |-> <<"a", "m">>, pm |-> <<"p", "m">>, trail |-> <<>>],
      [lead |-> <<" ">>, gap |-> <<" ", " ">>, am |-> <<"A", "m">>, pm |-> <<"p", "M">>,
       trail |-> <<" ">>],
      [lead |-> <<"\t">>, gap |-> <<>>, am |-> <<"a", "M">>, pm |-> <<"P", "m">>,
       trail |-> <<" ", " ">>] }

\* an input of the time functions with what it was made from: kind "24h"
\* (H:MM or HH:MM), "12h" (with a meridiem), "blank" or "other"
TimeInput(kind, hour, minute, pm, value) ==
    [kind |-> kind, hour |-> hour, minute |-> minute, pm |-> pm, value |-> value]

TwentyFourHourInputs ==
    { TimeInput("24h", h, m, FALSE, StringValue(HourText(h, padded) \o <<":">> \o padStart2(m))) :
        h \in 0..MaxHourTried, m \in 0..MaxMinuteTried, padded \in BOOLEAN }

TwelveHourInputs ==
    { TimeInput("12h", h, m, pm,
                StringValue(l.lead \o HourText(h, padded) \o <<":">> \o padStart2(m) \o l.gap
                               \o (IF pm THEN l.pm ELSE l.am) \o l.trail)) :
        h \in 0..MaxHourTried, m \in 0..MaxMinuteTried, padded \in BOOLEAN,
        pm \in BOOLEAN, l \in Layouts }

BlankInputs ==
    { TimeInput("blank", 0, 0, FALSE, NonStringValue) }
      \cup { TimeInput("blank", 0, 0, FALSE, StringValue(t)) :
                t \in { <<>>, <<" ">>, <<"\t", " ">> } }

OtherInputs ==
    { TimeInput("other", 0, 0, FALSE, StringValue(t)) :
        t \in { <<"a", "b", "c">>,
                <<"9", ":", "3">>,
                <<"9", "3", "0">>,
                <<"9", ":", "3", "0", " ", "X", "M">>,
                <<"9", ":", "3", "0", "0">>,
                <<":", "3", "0">>,
                <<"1", "2", "3", ":", "0", "0">>,
                <<"9", ".", "3", "0">>,
                <<"9", ":", "3", "0", " ", "A">>,
                <<"9", ":", "3", "0", " ", "A", "M", "x">>,
                <<"x", "9", ":", "3", "0">>,
                <<"9", " ", ":", "3", "0">>,
                <<"9", ":", " ", "3", "0">>,
                <<"9", ":", "3", "0", " ", "A", " ", "M">>,
                <<"A", "M">>,
                <<"1", "2", ":", "0", "0", " ", "n", "o", "o", "n">>,
                <<"9", ":", "3", "0", ":", "0", "0">>,
                <<"-", "1", ":", "3", "0">> } }

TimeInputs == TwentyFourHourInputs \cup TwelveHourInputs \cup BlankInputs \cup OtherInputs

\* no result yet
NoParse == [success |-> FALSE, time |-> <<>>, error |-> ""]

\* a call of a time function: the input it started from, its argument, and
\* what parseTime and isValidTimeFormat have returned
TimeCall(op, input, argument, parsed, valid, formatted) ==
    [op |-> op, input |-> input, argument |-> argument, parsed |-> parsed,
     valid |-> valid, formatted |-> formatted]

\* no hook is mounted: the functions are called on their own
TimeInit ==
    /\ storedValue = <<>>
    /\ error = null
    /\ store = StoreAbsent
    /\ mounted = FALSE
    /\ effectPending = FALSE
    /\ firstRender = TRUE
    /\ clock = 0
    /\ nextId = 1
    /\ clean = TRUE
    /\ beforeReload = NotReloaded
    /\ last \in {TimeCall("input", i, i.value, NoParse, FALSE, FALSE) : i \in TimeInputs}

NoHook ==
    UNCHANGED <<storedValue, error, store, mounted, effectPending, firstRender,
                clock, nextId, clean, beforeReload>>

\* parseTime(argument): of the input, or of what formatTimeForDisplay made of it
ParseTime ==
    /\ last.op \in {"input", "formatTimeForDisplay"}
    /\ last' = [last EXCEPT !.op = "parseTime", !.parsed = parseTimeOfValue(last.argument)]
    /\ NoHook

\* isValidTimeFormat(input)
IsValidTimeFormat ==
    /\ last.op = "input"
    /\ last' = [last EXCEPT !.op = "isValidTimeFormat",
                            !.valid = isValidTimeFormatOfValue(last.argument)]
    /\ NoHook

\* formatTimeForDisplay(input), on the inputs written as H:MM or HH:MM
FormatTimeForDisplay ==
    /\ last.op = "input"
    /\ last.input.kind = "24h"
    /\ last' = [last EXCEPT !.op = "formatTimeForDisplay",
                            !.argument = StringValue(formatTimeForDisplay(last.argument.chars)),
                            !.formatted = TRUE]
    /\ NoHook

TimeNext == ParseTime \/ IsValidTimeFormat \/ FormatTimeForDisplay

TimeSpec == TimeInit /\ [][TimeNext]_vars

\* ------------------------------------------- the handlers of App, overlapping
\* handleAddTask, handleEditTask and handleDeleteTask set the loading state,
\* wait for a timer and then call the repository; while one waits another can
\* be started, and React renders and runs effects between their steps. The
\* hooks' state with what is queued for the next render:
\*   queue        the values given to setStoredValue since the last render
\*   queuedError  <<e>> when setError(e) was called since the last render
\*   renderDue    some state of App or of a hook changed since the last render
\*   isLoading, loadingMessage   the loading state of App as last set

\* the most requests started
MaxRequests == 3

\* the forms the handlers are called with
UIForms ==
    { PlainForm,
      [time |-> <<"9", ":", "0", "0">>, title |-> <<"A">>, priority |-> "high"],
      [time |-> <<"2", "5", ":", "0", "0">>, title |-> <<>>, priority |-> "medium"] }

LoadingMessageOf(kind) ==
    CASE kind = "add" -> "Adding task..."
      [] kind = "edit" -> "Updating task..."
      [] kind = "delete" -> "Deleting task..."

\* the handler up to its await: setIsLoading(true), setLoadingMessage(...),
\* setGlobalError(null); a render is due when the loading state changes
HandlerStarts(ui, kind) ==
    [ui EXCEPT !.renderDue = @ \/ ~ui.isLoading \/ ui.loadingMessage # LoadingMessageOf(kind),
               !.isLoading = TRUE,
               !.loadingMessage = LoadingMessageOf(kind)]

\* setValue(value) called between two renders
SetTasks(ui, value, outcome) ==
    LET w == setValue(value, outcome, ui.store)
    IN [ui EXCEPT !.queue = @ \o w.queue, !.store = w.store, !.queuedError = <<w.error>>]

\* the task addTask builds, generateTaskId returning id
NewTaskWithId(id, sanitizedData, now) ==
    [id |-> id, time |-> sanitizedData.time, title |-> sanitizedData.title,
     priority |-> sanitizedData.priority, createdAt |-> now]

\* the call of the repository a handler makes after its await; a validation
\* Error is caught by the handler and changes nothing of the repository
RepositoryCall(ui, request, outcome) ==
    LET validationResult == validationResults[request.data]
    IN IF request.kind = "delete"
       THEN SetTasks(ui, FnValue(DeleteUpdater(request.id)), outcome)
       ELSE IF ~validationResult.isValid THEN ui
       ELSE IF request.kind = "add"
       THEN [SetTasks(ui, FnValue(AddUpdater(NewTaskWithId(ui.nextId,
                                      validationResult.sanitizedData, ui.now))), outcome)
                EXCEPT !.nextId = @ + 1]
       ELSE SetTasks(ui, FnValue(UpdateUpdater(request.id, validationResult.sanitizedData)),
                     outcome)

\* the handler from its await on: the call, the toast (showTaskSuccess or
\* showError) and, in finally, setIsLoading(false)
HandlerResumes(ui, request, outcome) ==
    [RepositoryCall(ui, request, outcome) EXCEPT !.renderDue = TRUE, !.isLoading = FALSE]

\* App renders: the queue of setStoredValue is applied (an updater that throws
\* unmounts the tree); useTasks hands a new [] to useLocalStorage, so the load
\* effect is due
AppRenders(ui) ==
    LET r == ProcessQueue(ui.storedValue, ui.queue)
    IN IF r.threw
       THEN [ui EXCEPT !.mounted = FALSE, !.storedValue = <<>>, !.error = null,
                       !.queue = <<>>, !.queuedError = <<>>, !.renderDue = FALSE,
                       !.effectPending = FALSE]
       ELSE [ui EXCEPT !.storedValue = r.val,
                       !.error = IF ui.queuedError = <<>> THEN @ ELSE ui.queuedError[1],
                       !.queue = <<>>, !.queuedError = <<>>, !.renderDue = FALSE,
                       !.effectPending = TRUE]

\* the load effect runs (removeItem returning): what it sets is queued for the
\* next render
LoadEffectRuns(ui) ==
    LET parsed == JSONparse(ui.store)
    IN IF ui.store.kind = "absent" THEN [ui EXCEPT !.effectPending = FALSE]
       ELSE IF ~parsed.threw
       THEN [ui EXCEPT !.effectPending = FALSE,
                       !.queue = @ \o <<ArrValue(parsed.val)>>,
                       !.queuedError = <<null>>,
                       !.renderDue = TRUE]
       ELSE [ui EXCEPT !.effectPending = FALSE,
                       !.store = StoreAbsent,
                       !.queue = @ \o <<ArrValue(<<>>)>>,
                       !.queuedError = <<ErrCorrupted>>,
                       !.renderDue = TRUE]

\* a request: the n-th started, of a kind, with the arguments of its handler,
\* the kinds of the requests that were waiting when it started, and whether
\* no render and no effect was due then
Request(n, kind, id, data, overlaps, settled) ==
    [n |-> n, kind |-> kind, id |-> id, data |-> data, overlaps |-> overlaps,
     settled |-> settled]

\* what the handlers and React have done: the requests waiting for their
\* timer, the requests resumed with what setItem did for each, and the queued
\* state
UIState(op, inFlight, done, ui) ==
    [op |-> op, inFlight |-> inFlight, done |-> done, queue |-> ui.queue,
     queuedError |-> ui.queuedError, renderDue |-> ui.renderDue,
     isLoading |-> ui.isLoading, loadingMessage |-> ui.loadingMessage]

\* the state of the hooks and of App as one record
CurrentUI ==
    [storedValue |-> storedValue, error |-> error, store |-> store, mounted |-> mounted,
     effectPending |-> effectPending, nextId |-> nextId, now |-> clock,
     queue |-> last.queue, queuedError |-> last.queuedError, renderDue |-> last.renderDue,
     isLoading |-> last.isLoading, loadingMessage |-> last.loadingMessage]

\* the page is open on an empty store and its load has settled
OpenedUI ==
    [storedValue |-> <<>>, error |-> null, store |-> StoreAbsent, mounted |-> TRUE,
     effectPending |-> FALSE, nextId |-> 1, now |-> 0,
     queue |-> <<>>, queuedError |-> <<>>, renderDue |-> FALSE,
     isLoading |-> FALSE, loadingMessage |-> "Loading..."]

UIInit ==
    /\ storedValue = OpenedUI.storedValue
    /\ error = OpenedUI.error
    /\ store = OpenedUI.store
    /\ mounted = OpenedUI.mounted
    /\ effectPending = OpenedUI.effectPending
    /\ nextId = OpenedUI.nextId
    /\ clock = OpenedUI.now
    /\ firstRender = TRUE
    /\ clean = TRUE
    /\ beforeReload = NotReloaded
    /\ last = UIState("open", {}, <<>>, OpenedUI)

\* the step to ui, op being what was done
UIStep(op, inFlight, done, ui) ==
    /\ storedValue' = ui.storedValue
    /\ error' = ui.error
    /\ store' = ui.store
    /\ mounted' = ui.mounted
    /\ effectPending' = ui.effectPending
    /\ nextId' = ui.nextId
    /\ last' = UIState(op, inFlight, done, ui)
    /\ firstRender' = (firstRender /\ op # "render")
    /\ UNCHANGED <<clock, clean, beforeReload>>

\* a handler is called: it runs up to its await
HandlerCalled(kind, id, data) ==
    /\ mounted
    /\ Len(last.done) + Cardinality(last.inFlight) < MaxRequests
    /\ UIStep("start",
              last.inFlight \cup
                 { Request(Len(last.done) + Cardinality(last.inFlight) + 1, kind, id, data,
                           {r.kind : r \in last.inFlight},
                           ~effectPending /\ ~last.renderDue) },
              last.done, HandlerStarts(CurrentUI, kind))

\* the form is submitted
HandleAddTask(taskData) == HandlerCalled("add", 0, taskData)

\* a task of the list is edited
HandleEditTask(id, taskData) == id \in Ids(storedValue) /\ HandlerCalled("edit", id, taskData)

\* a task of the list is deleted
HandleDeleteTask(id) == id \in Ids(storedValue) /\ HandlerCalled("delete", id, NoArguments.data)

\* the timer of a waiting request fires and its handler goes on
TimerFires(request, outcome) ==
    /\ mounted
    /\ request \in last.inFlight
    /\ UIStep("resume", last.inFlight \ {request},
              Append(last.done, [request |-> request, outcome |-> outcome]),
              HandlerResumes(CurrentUI, request, outcome))

\* React renders App; the effects of the render before are run first
Rerender ==
    /\ mounted /\ ~effectPending /\ last.renderDue
    /\ UIStep("render", last.inFlight, last.done, AppRenders(CurrentUI))

\* React runs the load effect
RunLoadEffect ==
    /\ mounted /\ effectPending
    /\ UIStep("effect", last.inFlight, last.done, LoadEffectRuns(CurrentUI))

UINext ==
    \/ \E d \in UIForms : HandleAddTask(d)
    \/ \E i \in Ids(storedValue), d \in UIForms : HandleEditTask(i, d)
    \/ \E i \in Ids(storedValue) : HandleDeleteTask(i)
    \/ \E r \in last.inFlight, o \in WriteOutcomes : TimerFires(r, o)
    \/ Rerender
    \/ RunLoadEffect

UISpec == UIInit /\ [][UINext]_vars

\* ------------------------------------------------------ the sorter alone
\* sortTasks called on the array itself, without the copy
sortTasksArgumentSortedInPlace(tasks) == sortTasks(tasks)

\* the array handed to sortTasks as it is after the call: the spread copies it
\* and sort orders the copy
sortTasksArgument(tasks) == tasks

\* the longest array handed to the sorter
MaxSortLen == 3

SortTimes == { <<"0", "9", ":", "0", "0">>, <<"1", "0", ":", "0", "0">> }
SortPriorities == {undefined, "low", "medium", "high"}
SortCreatedAts == {0, 1}
SortKeys == SortTimes \X SortPriorities \X SortCreatedAts

\* a task with these sort keys; its id is its place in the array it is given in
SortTask(id, time, priority, createdAt) ==
    [id |-> id, time |-> time, title |-> <<"T">>, priority |-> priority,
     createdAt |-> createdAt]

\* every array of n tasks over the sort keys
TaskArrays(n) ==
    { [i \in 1..n |-> SortTask(i, k[i][1], k[i][2], k[i][3])] : k \in [1..n -> SortKeys] }

\* canonical times through the day: every hour, minutes of one and of two digits
DayTimes ==
    { padStart2(h) \o <<":">> \o padStart2(m) : h \in 0..23, m \in {0, 9, 10, 59} }

\* two tasks that differ in their time at most
TimePairs ==
    { <<SortTask(1, t1, "low", 0), SortTask(2, t2, "low", 0)>> : t1, t2 \in DayTimes }

\* the calls made on an input array: argument is the array as it is now, and
\* each result is <<>> until the call has returned it
SortCall(op, input, argument, inputSorted, result, resultSorted, again) ==
    [op |-> op, input |-> input, argument |-> argument, inputSorted |-> inputSorted,
     result |-> result, resultSorted |-> resultSorted, again |-> again]

\* the call that hands the array x to the functions
SortInput(x) == SortCall("input", x, x, <<>>, <<>>, <<>>, <<>>)

\* no hook is mounted: the functions are called on their own
SortInit ==
    /\ storedValue = <<>>
    /\ error = null
    /\ store = StoreAbsent
    /\ mounted = FALSE
    /\ effectPending = FALSE
    /\ firstRender = TRUE
    /\ clock = 0
    /\ nextId = 1
    /\ clean = TRUE
    /\ beforeReload = NotReloaded
    /\ \/ \E n \in 0..MaxSortLen : \E x \in TaskArrays(n) : last = SortInput(x)
       \/ \E x \in TimePairs : last = SortInput(x)

\* isTaskListSorted(x)
IsTaskListSorted ==
    /\ last.op = "input"
    /\ last' = [last EXCEPT !.op = "isTaskListSorted",
                            !.inputSorted = <<isTaskListSorted(last.argument)>>]
    /\ NoHook

\* sortTasks(x)
SortTasks ==
    /\ last.op = "isTaskListSorted"
    /\ last' = [last EXCEPT !.op = "sortTasks",
                            !.result = <<sortTasks(last.argument)>>,
                            !.argument = sortTasksArgument(last.argument)]
    /\ NoHook

\* isTaskListSorted(sortTasks(x))
IsTaskListSortedOfSorted ==
    /\ last.op = "sortTasks"
    /\ last' = [last EXCEPT !.op = "isTaskListSortedOfSorted",
                            !.resultSorted = <<isTaskListSorted(last.result[1])>>]
    /\ NoHook

\* sortTasks(sortTasks(x))
SortTasksAgain ==
    /\ last.op = "isTaskListSortedOfSorted"
    /\ last' = [last EXCEPT !.op = "sortTasksAgain",
                            !.again = <<sortTasks(last.result[1])>>]
    /\ NoHook

SortNext == IsTaskListSorted \/ SortTasks \/ IsTaskListSortedOfSorted \/ SortTasksAgain

SortSpec == SortInit /\ [][SortNext]_vars

\* --------------------------------------------------- the validator alone
\* validateTimeField from its first line on: !time || typeof time !== 'string'
validateTimeFieldOfValue(value) ==
    IF ~value.isString THEN <<ValidationError("time", ErrTimeRequired)>>
    ELSE validateTimeField(value.chars)

\* validateTitleField from its first line on: typeof title !== 'string'
validateTitleFieldOfValue(value) ==
    IF ~value.isString THEN <<ValidationError("title", "Title is required")>>
    ELSE validateTitleField(value.chars)

\* validateTaskFormData on a form whose time and title may be any value
validateTaskFormDataOfValue(formData) ==
    validateTimeFieldOfValue(formData.time)
        \o validateTitleFieldOfValue(formData.title)
        \o validatePriorityField(formData.priority)

isValidTaskFormData(formData) == Len(validateTaskFormDataOfValue(formData)) = 0

\* typeof formData.time === 'string' ? formData.time.trim() : '' (trim of '' is '')
StringOrEmpty(value) == IF value.isString THEN value.chars ELSE <<>>

sanitizeTaskFormDataOfValue(formData) ==
    sanitizeTaskFormData([time |-> StringOrEmpty(formData.time),
                          title |-> StringOrEmpty(formData.title),
                          priority |-> formData.priority])

\* validateAndSanitizeTaskFormData that validates the form it was given
validateAndSanitizeRawTaskFormData(formData) ==
    LET sanitizedData == sanitizeTaskFormDataOfValue(formData)
        errors == validateTaskFormDataOfValue(formData)
    IN [sanitizedData |-> sanitizedData, errors |-> errors, isValid |-> Len(errors) = 0]

\* validateAndSanitizeTaskFormData on a form whose time and title may be any value
validateAndSanitizeTaskFormDataOfValue(formData) ==
    LET sanitizedData == sanitizeTaskFormDataOfValue(formData)
        errors == validateTaskFormData(sanitizedData)
    IN [sanitizedData |-> sanitizedData, errors |-> errors, isValid |-> Len(errors) = 0]

\* n times the character c
Repeat(c, n) == [i \in 1..n |-> c]

\* a time as typed into the form, with the canonical time it stands for
\* (<<>> when it stands for none)
FormTime(value, canonical) == [value |-> value, canonical |-> canonical]

FormTimes ==
    { FormTime(NonStringValue, <<>>),
      FormTime(StringValue(<<"0", "9", ":", "3", "0">>), <<"0", "9", ":", "3", "0">>),
      FormTime(StringValue(<<"9", ":", "3", "0">>), <<"0", "9", ":", "3", "0">>),
      FormTime(StringValue(<<" ", " ", "9", ":", "3", "0", " ", "A", "M", " ", " ">>), <<"0", "9", ":", "3", "0">>),
      FormTime(StringValue(<<"9", ":", "3", "0", "p", "m">>), <<"2", "1", ":", "3", "0">>),
      FormTime(StringValue(<<"1", "2", ":", "0", "0", " ", "a", "m">>), <<"0", "0", ":", "0", "0">>),
      FormTime(StringValue(<<" ", "7", ":", "0", "5", " ">>), <<"0", "7", ":", "0", "5">>),
      FormTime(StringValue(<<"2", "3", ":", "5", "9">>), <<"2", "3", ":", "5", "9">>),
      FormTime(StringValue(<<>>), <<>>),
      FormTime(StringValue(<<" ", " ", " ">>), <<>>),
      FormTime(StringValue(<<"i", "n", "v", "a", "l", "i", "d">>), <<>>),
      FormTime(StringValue(<<" ", " ", "i", "n", "v", "a", "l", "i", "d", " ", " ">>), <<>>),
      FormTime(StringValue(<<"2", "5", ":", "0", "0">>), <<>>),
      FormTime(StringValue(<<"0", "9", ":", "6", "0">>), <<>>),
      FormTime(StringValue(<<"1", "3", ":", "0", "0", " ", "P", "M">>), <<>>),
      FormTime(StringValue(<<"0", ":", "0", "0", " ", "A", "M">>), <<>>) }

\* a title as typed into the form, with the title it is without the white
\* space around it
FormTitle(value, trimmed) == [value |-> value, trimmed |-> trimmed]

FormTitles ==
    { FormTitle(NonStringValue, <<>>),
      FormTitle(StringValue(Repeat("A", MaxTitleLength)), Repeat("A", MaxTitleLength)),
      FormTitle(StringValue(Repeat("A", MaxTitleLength + 1)), Repeat("A", MaxTitleLength + 1)),
      FormTitle(StringValue(<<" ">> \o Repeat("b", MaxTitleLength) \o <<" ", "\t">>),
                Repeat("b", MaxTitleLength)),
      FormTitle(StringValue(<<"T", "a", "s", "k", " ", "t", "i", "t", "l", "e">>), <<"T", "a", "s", "k", " ", "t", "i", "t", "l", "e">>),
      FormTitle(StringValue(<<" ", " ", "T", "a", "s", "k", " ", "t", "i", "t", "l", "e", " ", " ">>), <<"T", "a", "s", "k", " ", "t", "i", "t", "l", "e">>),
      FormTitle(StringValue(<<"A">>), <<"A">>),
      FormTitle(StringValue(<<" ", "m", "I", "x", "E", "d", " ", "C", "A", "S", "E", "	">>), <<"m", "I", "x", "E", "d", " ", "C", "A", "S", "E">>),
      FormTitle(StringValue(<<>>), <<>>),
      FormTitle(StringValue(<<" ", " ", " ">>), <<>>) }

FormPriorities == {undefined, "low", "medium", "high", "invalid", "HIGH", "extreme"}

\* a form to validate: what was typed, and the form handed to the validator
FormInput(time, title, priority) ==
    [time |-> time, title |-> title,
     formData |-> [time |-> time.value, title |-> title.value, priority |-> priority]]

ValidatorInputs ==
    { FormInput(time, title, priority) :
        time \in FormTimes, title \in FormTitles, priority \in FormPriorities }

\* nothing returned yet
NoValidation ==
    [sanitizedData |-> [time |-> <<>>, title |-> <<>>, priority |-> undefined],
     errors |-> <<>>, isValid |-> FALSE]

\* a call of the validator on an input and what it returned
ValidatorCall(op, input, returned) == [op |-> op, input |-> input, returned |-> returned]

\* no hook is mounted: the functions are called on their own
ValidatorInit ==
    /\ storedValue = <<>>
    /\ error = null
    /\ store = StoreAbsent
    /\ mounted = FALSE
    /\ effectPending = FALSE
    /\ firstRender = TRUE
    /\ clock = 0
    /\ nextId = 1
    /\ clean = TRUE
    /\ beforeReload = NotReloaded
    /\ last \in {ValidatorCall("input", i, NoValidation) : i \in ValidatorInputs}

\* validateTaskFormData(formData)
ValidateTaskFormData ==
    /\ last.op = "input"
    /\ last' = [last EXCEPT !.op = "validateTaskFormData",
                            !.returned.errors = validateTaskFormDataOfValue(last.input.formData)]
    /\ NoHook

\* isValidTaskFormData(formData)
IsValidTaskFormData ==
    /\ last.op = "input"
    /\ last' = [last EXCEPT !.op = "isValidTaskFormData",
                            !.returned.isValid = isValidTaskFormData(last.input.formData)]
    /\ NoHook

\* validateAndSanitizeTaskFormData(formData)
ValidateAndSanitizeTaskFormData ==
    /\ last.op = "input"
    /\ last' = [last EXCEPT !.op = "validateAndSanitizeTaskFormData",
                            !.returned = validateAndSanitizeTaskFormDataOfValue(last.input.formData)]
    /\ NoHook

ValidatorNext == ValidateTaskFormData \/ IsValidTaskFormData \/ ValidateAndSanitizeTaskFormData

ValidatorSpec == ValidatorInit /\ [][ValidatorNext]_vars

\* ------------------------------------------------------------ properties
\* minutes since midnight of a canonical HH:MM time
TimeMinutes(time) == parseInt(SubSeq(time, 1, 2)) * 60 + parseInt(SubSeq(time, 4, 5))

\* the priority weights of the ordering: high 3, medium 2, low or absent 1
Weight(priority) ==
    IF priority = "high" THEN 3 ELSE IF priority = "medium" THEN 2 ELSE 1

\* a may stand before b: earlier time, or the same time and a heavier priority,
\* or the same time and weight and a not created after b
InOrder(a, b) ==
    \/ TimeMinutes(a.time) < TimeMinutes(b.time)
    \/ /\ TimeMinutes(a.time) = TimeMinutes(b.time)
       /\ \/ Weight(a.priority) > Weight(b.priority)
          \/ Weight(a.priority) = Weight(b.priority) /\ a.createdAt <= b.createdAt

Ordered(tasks) ==
    \A i, j \in 1..Len(tasks) : i < j => InOrder(tasks[i], tasks[j])

Operations == {"add", "update", "delete", "clearAll"}

\* C1: in every state a consumer can observe (after the load, after every add,
\* update, delete and clear, whether or not the store write succeeded) the
\* collection is ordered by time ascending, then priority weight descending
\* with an absent priority as low, then createdAt ascending
C1_CollectionAlwaysSorted == mounted => Ordered(storedValue)

\* an add has put its task in front of older tasks with a later time
C1_Witness ==
    /\ mounted
    /\ last.op = "add"
    /\ Len(storedValue) >= 3
    /\ storedValue[1].id = nextId - 1
    /\ storedValue[1].time # storedValue[Len(storedValue)].time

\* C2: no two tasks of the collection have the same id, in every reachable
\* state, that after an add whose store write fails included
C2_UniqueIds ==
    mounted => \A i, j \in 1..Len(storedValue) :
                  i # j => storedValue[i].id # storedValue[j].id

\* C3: right after an add, update, delete or clear that succeeded and whose
\* store write succeeded, the store holds the JSON serialization of the
\* collection
C3_StoreHoldsCollection ==
    (mounted /\ last.op \in Operations /\ last.result = "ok" /\ last.writeOk)
        => store = JSONstringify(ArrValue(storedValue))

\* C4: a page reloaded after operations that all succeeded with a working
\* store shows, once the store is loaded, the collection it showed before the
\* reload, and reports no error
C4_ReloadRoundTrip ==
    (beforeReload.reloaded /\ beforeReload.clean /\ clean /\ mounted /\ last.op = "effect")
        => (storedValue = beforeReload.tasks /\ error = null)

\* the collection one application of the queued value gives
AppliedOnce(value) == ProcessQueue(storedValue, <<value>>).val

\* what C5 asks of a step whose store write failed with outcome o
WriteFailureKept(value, o) ==
    /\ mounted'
    /\ storedValue' = AppliedOnce(value)
    /\ error' # null
    /\ (o = ThrowQuotaExceeded => error' = ErrQuota)

\* C5: when the store write of an operation fails, the collection still
\* becomes exactly what a successful write would have made it (for add: the
\* previous collection and the new task once), and the error is set, to the
\* quota message when the quota is exhausted
C5_FailedWriteStillAdvances ==
    [][ /\ \A d \in FormInputs, o \in WriteOutcomes, now \in {clock, clock + 1} :
             (last'.op = "add" /\ last'.arguments.data = d /\ o.threw /\ validationResults[d].isValid
                /\ AddTask(d, o, now))
             => WriteFailureKept(
                    FnValue(AddUpdater(NewTask(validationResults[d].sanitizedData, now))), o)
        /\ \A i \in Ids(storedValue), d \in FormInputs, o \in WriteOutcomes :
             (last'.op = "update" /\ last'.arguments = [id |-> i, data |-> d] /\ o.threw
                /\ validationResults[d].isValid
                /\ UpdateTask(i, d, o))
             => WriteFailureKept(
                    FnValue(UpdateUpdater(i, validationResults[d].sanitizedData)), o)
        /\ \A i \in Ids(storedValue), o \in WriteOutcomes :
             (last'.op = "delete" /\ last'.arguments.id = i /\ o.threw /\ DeleteTask(i, o))
             => WriteFailureKept(FnValue(DeleteUpdater(i)), o)
        /\ \A o \in WriteOutcomes :
             (last'.op = "clearAll" /\ o.threw /\ ClearAllTasks(o))
             => WriteFailureKept(ArrValue(<<>>), o) ]_vars

\* what is wrong with a form, said without the validator
TimeBad(d) == ~parseTime(d.time).success
TitleBad(d) == trim(d.title) = <<>> \/ Len(trim(d.title)) > MaxTitleLength
PriorityBad(d) == d.priority \notin {undefined, "low", "medium", "high"}

TimeMessages == {ErrTimeRequired, ErrHour12, ErrHour24, ErrMinutes, ErrTimeFormat}
TitleMessages ==
    {"Title is required", "Title cannot be empty",
     "Title must be 200 characters or less", "Title must be at least 1 character long"}
PriorityMessages == {"Priority must be one of: low, medium, high"}

Names(thrown, messages) == \E k \in 1..Len(thrown) : thrown[k] \in messages

\* C6: add with input that fails validation throws one error whose message
\* names the problem of every field that has one, and changes neither the
\* collection nor the store
C6_InvalidAddRejected ==
    [][ \A d \in FormInputs, o \in WriteOutcomes, now \in {clock, clock + 1} :
          (last'.op = "add" /\ last'.arguments.data = d
             /\ (TimeBad(d) \/ TitleBad(d) \/ PriorityBad(d))
             /\ AddTask(d, o, now))
          => /\ last'.result = "validation"
             /\ (TimeBad(d) => Names(last'.thrown, TimeMessages))
             /\ (TitleBad(d) => Names(last'.thrown, TitleMessages))
             /\ (PriorityBad(d) => Names(last'.thrown, PriorityMessages))
             /\ Len(last'.thrown) =
                   (IF TimeBad(d) THEN 1 ELSE 0) + (IF TitleBad(d) THEN 1 ELSE 0)
                   + (IF PriorityBad(d) THEN 1 ELSE 0)
             /\ UNCHANGED <<storedValue, store, error, mounted>> ]_vars

\* an add was rejected for three fields while the collection held tasks
C6_Witness ==
    /\ mounted
    /\ last.op = "add"
    /\ last.result = "validation"
    /\ Len(last.thrown) = 3
    /\ storedValue # <<>>

\* what C7 asks of a step that named an id the collection has not
NotFoundNothingMutated ==
    /\ last'.result = "notfound"
    /\ store' = store
    /\ (mounted' => storedValue' = storedValue)

\* C7: update with valid data and delete, called with an id that is not in
\* the collection, fail with NotFound and change neither the collection nor
\* the store
C7_MissingIdMutatesNothing ==
    [][ /\ \A i \in TargetIds, d \in FormInputs, o \in WriteOutcomes :
             (last'.op = "update" /\ last'.arguments = [id |-> i, data |-> d]
                /\ i \notin Ids(storedValue)
                /\ validationResults[d].isValid /\ UpdateTask(i, d, o))
             => NotFoundNothingMutated
        /\ \A i \in TargetIds, o \in WriteOutcomes :
             (last'.op = "delete" /\ last'.arguments.id = i /\ i \notin Ids(storedValue)
                /\ DeleteTask(i, o))
             => NotFoundNothingMutated ]_vars

\* C8: an add that passes validation grows the collection by exactly one
\* task: the new collection is sortTasks of the old one with the new task,
\* the tasks there were are unchanged, and the new task is one
\* whose id is in no earlier task, whose createdAt is the time of the call,
\* whose time is the canonical form of the input, whose title is the trimmed
\* input and whose priority is the one supplied
C8_AddGrowsByOne ==
    [][ \A d \in FormInputs, o \in WriteOutcomes, now \in {clock, clock + 1} :
          (last'.op = "add" /\ last'.arguments.data = d
             /\ ~(TimeBad(d) \/ TitleBad(d) \/ PriorityBad(d))
             /\ AddTask(d, o, now))
          => \E created \in
                 {[id |-> nextId, time |-> parseTime(d.time).time, title |-> trim(d.title),
                   priority |-> d.priority, createdAt |-> now]} :
               /\ mounted'
               /\ created.id \notin Ids(storedValue)
               /\ Len(storedValue') = Len(storedValue) + 1
               /\ filterOut(storedValue', created.id) = storedValue
               /\ storedValue' = sortTasks(storedValue \o <<created>>) ]_vars

C10_DeleteRemovesExactlyOne ==
    [][ \A i \in Ids(storedValue), o \in WriteOutcomes :
          (last'.op = "delete" /\ last'.arguments.id = i /\ DeleteTask(i, o))
          => /\ mounted'
             /\ last'.result = "ok"
             /\ storedValue' = filterOut(storedValue, i)
             /\ Ordered(storedValue') ]_vars

\* C11: clearAll succeeds from any state: afterwards the collection is empty
\* and, when the store write succeeded, the store holds the empty JSON array
C11_ClearAllEmpties ==
    [][ \A o \in WriteOutcomes :
          (last'.op = "clearAll" /\ last'.writeOk = ~o.threw /\ ClearAllTasks(o))
          => /\ mounted'
             /\ last'.result = "ok"
             /\ storedValue' = <<>>
             /\ (~o.threw => store' = [kind |-> "json", arr |-> <<>>, text |-> ""]) ]_vars

\* clearAll has emptied a collection that held tasks, and its write went through
C11_Witness ==
    /\ mounted
    /\ last.op = "clearAll"
    /\ last.writeOk
    /\ nextId > 1
    /\ storedValue = <<>>
    /\ store.kind = "json"

Contains(s, searchString) ==
    \E i \in 1..(Len(s) - Len(searchString) + 1) :
        \A k \in 1..Len(searchString) : s[i + k - 1] = searchString[k]

\* the four messages of a failed write
SaveMessages ==
    <<"Storage quota exceeded. Please clear some data.",
      "Unable to access localStorage. Data will not persist.",
      "Failed to save data to localStorage",
      "Unknown error occurred while saving data">>

\* the message C13 gives an Error with this name and message
Classified(name, message) ==
    IF name = "QuotaExceededError" \/ Contains(message, <<"q", "u", "o", "t", "a">>)
    THEN SaveMessages[1]
    ELSE IF Contains(message, <<"a", "c", "c", "e", "s", "s">>)
    THEN SaveMessages[2]
    ELSE SaveMessages[3]

StoreOperationSucceeded ==
    \/ last'.op \in Operations /\ last'.result = "ok" /\ last'.writeOk
    \/ last'.op = "effect" /\ store.kind = "json"

Canonical(time) ==
    /\ Len(time) = 5
    /\ time[3] = ":"
    /\ \A k \in {1, 2, 4, 5} : time[k] \in Digits
    /\ DigitVal(time[1]) * 10 + DigitVal(time[2]) <= 23
    /\ DigitVal(time[4]) * 10 + DigitVal(time[5]) <= 59

\* C15: in every reachable state the time of every task of the collection and
\* of every task of the stored array is a canonical HH:MM time, never the
\* text the user typed
C15_TimesCanonical ==
    /\ mounted => \A i \in 1..Len(storedValue) : Canonical(storedValue[i].time)
    /\ store.kind = "json" => \A i \in 1..Len(store.arr) : Canonical(store.arr[i].time)

\* the collection holds the task added as " 9:00 am ", " B "
C15_Witness ==
    /\ mounted
    /\ \E i \in 1..Len(storedValue) :
          /\ storedValue[i].title = <<"B">>
          /\ storedValue[i].time = <<"0", "9", ":", "0", "0">>

\* the step is an operation that failed: validation, NotFound, a store write
\* that threw, or a load of a corrupt store
FailedStep ==
    \/ last'.op \in Operations /\ (last'.result # "ok" \/ ~last'.writeOk)
    \/ last'.op = "effect" /\ store.kind = "text"

\* C16: no failure is fatal: after an operation that failed the repository is
\* still there to handle a following add, and an add with valid data puts its
\* task into the collection and, when its write goes through, leaves the
\* error null
C16_NoFailureFatal ==
    [][ /\ FailedStep => mounted'
        /\ \A d \in FormInputs, o \in WriteOutcomes, now \in {clock, clock + 1} :
             (last'.op = "add" /\ last'.arguments.data = d
                /\ ~(TimeBad(d) \/ TitleBad(d) \/ PriorityBad(d)) /\ AddTask(d, o, now))
             => /\ mounted'
                /\ nextId \in Ids(storedValue')
                /\ (~o.threw => error' = null) ]_vars

\* the text of the time function's input, and whether the state is the
\* result of a function called on the input itself
InputText == last.input.value.chars
Returned(op) == last.op = op /\ ~last.formatted

\* C17: parseTime of a canonical HH:MM string (00 <= HH <= 23, 00 <= MM <= 59)
\* succeeds and returns that string, and isValidTimeFormat is true of exactly
\* these strings ("9:30", "9:30 AM" and "24:00" are rejected)
C17_CanonicalTimesAccepted ==
    /\ (Returned("parseTime") /\ last.input.value.isString /\ Canonical(InputText))
          => last.parsed = [success |-> TRUE, time |-> InputText, error |-> ""]
    /\ Returned("isValidTimeFormat")
          => (last.valid <=> (last.input.value.isString /\ Canonical(InputText)))

\* isValidTimeFormat has accepted "23:59"
C17_Witness ==
    /\ Returned("isValidTimeFormat")
    /\ last.valid
    /\ InputText = <<"2", "3", ":", "5", "9">>

\* the two digits of n
DigitText == <<"0", "1", "2", "3", "4", "5", "6", "7", "8", "9">>
TwoDigits(n) == <<DigitText[(n \div 10) + 1], DigitText[(n % 10) + 1]>>

\* the hour of the day of hour h of the morning or of the afternoon
HourOfDay(h, pm) ==
    IF pm THEN (IF h = 12 THEN 12 ELSE h + 12) ELSE (IF h = 12 THEN 0 ELSE h)

\* C18: parseTime of a 12-hour input with hour 1..12 and minute 0..59, in any
\* letter case, with or without white space before the meridiem and with
\* white space around, succeeds and returns the padded 24-hour time: hour 0
\* for 12 AM, 12 for 12 PM, h for the other AM hours, h + 12 for the other PM
\* hours
C18_TwelveHourParsed ==
    (Returned("parseTime") /\ last.input.kind = "12h"
       /\ last.input.hour \in 1..12 /\ last.input.minute \in 0..59)
    => last.parsed =
          [success |-> TRUE,
           time |-> TwoDigits(HourOfDay(last.input.hour, last.input.pm)) \o <<":">>
                       \o TwoDigits(last.input.minute),
           error |-> ""]

\* parseTime has read "\t12:59aM  " as 00:59
C18_Witness ==
    /\ Returned("parseTime")
    /\ InputText = <<"\t", "1", "2", ":", "5", "9", "a", "M", " ", " ">>
    /\ last.parsed.time = <<"0", "0", ":", "5", "9">>

\* the error C19 gives an input, "" when it gives none
ExpectedError(input) ==
    IF input.kind = "blank" THEN "Time is required"
    ELSE IF input.kind = "other"
    THEN "Invalid time format. Use formats like \"9:30\", \"09:30\", \"9:30 AM\", or \"21:30\""
    ELSE IF input.kind = "12h" /\ input.hour \notin 1..12
    THEN "Hour must be between 1 and 12 for AM/PM format"
    ELSE IF input.kind = "24h" /\ input.hour > 23
    THEN "Hour must be between 00 and 23 for 24-hour format"
    ELSE IF input.minute > 59 THEN "Minutes must be between 00 and 59"
    ELSE ""

\* C19: a parseTime that fails returns one error, that of the first
\* constraint violated: "Time is required" for an empty, blank or non-string
\* input, the 12-hour hour error, the 24-hour hour error, the minute error
\* (the hour is checked first), and the format error for any other text
C19_ParseErrorKinds ==
    Returned("parseTime")
    => /\ last.parsed.success <=> ExpectedError(last.input) = ""
       /\ ~last.parsed.success
             => last.parsed = [success |-> FALSE, time |-> <<>>,
                               error |-> ExpectedError(last.input)]

\* parseTime has rejected "25:60" for its hour
C19_Witness ==
    /\ Returned("parseTime")
    /\ InputText = <<"2", "5", ":", "6", "0">>
    /\ last.parsed.error = "Hour must be between 00 and 23 for 24-hour format"

\* the 12-hour strings H:MM AM and H:MM PM
DisplayTimes ==
    { (IF h < 10 THEN <<DigitText[h + 1]>> ELSE TwoDigits(h)) \o <<":">> \o TwoDigits(m)
         \o <<" ">> \o meridiem :
        h \in 1..12, m \in 0..59, meridiem \in {<<"A", "M">>, <<"P", "M">>} }

\* C20: for a canonical time T, formatTimeForDisplay(T) is a 12-hour string
\* H:MM AM or H:MM PM, and parseTime of it succeeds and returns T
C20_DisplayRoundTrip ==
    (last.formatted /\ Canonical(InputText))
    => /\ last.argument.chars \in DisplayTimes
       /\ last.op = "parseTime"
             => last.parsed = [success |-> TRUE, time |-> InputText, error |-> ""]

\* "00:05" has been displayed as "12:05 AM" and parsed back
C20_Witness ==
    /\ last.formatted
    /\ last.op = "parseTime"
    /\ InputText = <<"0", "0", ":", "0", "5">>
    /\ last.argument.chars = <<"1", "2", ":", "0", "5", " ", "A", "M">>
    /\ last.parsed.success

\* how often task t stands in the array
Count(tasks, t) == Cardinality({i \in 1..Len(tasks) : tasks[i] = t})

\* the same tasks, each as often
Permutation(a, b) ==
    /\ Len(a) = Len(b)
    /\ \A i \in 1..Len(a) : Count(a, a[i]) = Count(b, a[i])

\* C21: for every task array x, sortTasks(x) holds the same tasks as x, each
\* as often; x is afterwards what it was; and sortTasks(sortTasks(x)) is
\* sortTasks(x)
C21_SortPermutesAndIsIdempotent ==
    /\ last.op \in {"sortTasks", "isTaskListSortedOfSorted", "sortTasksAgain"}
          => /\ Permutation(last.result[1], last.input)
             /\ last.argument = last.input
    /\ last.op = "sortTasksAgain" => last.again[1] = last.result[1]

\* an array of three tasks that was not in order has been sorted twice
C21_Witness ==
    /\ last.op = "sortTasksAgain"
    /\ Len(last.input) = 3
    /\ last.result[1] # last.input
    /\ last.result[1][1] = last.input[3]

\* the place a task had in the input: its id
InputPlace(t) == t.id

\* a comes before b in the order C22 states
Before(a, b) ==
    \/ TimeMinutes(a.time) < TimeMinutes(b.time)
    \/ /\ TimeMinutes(a.time) = TimeMinutes(b.time)
       /\ \/ Weight(a.priority) > Weight(b.priority)
          \/ /\ Weight(a.priority) = Weight(b.priority)
             /\ \/ a.createdAt < b.createdAt
                \/ a.createdAt = b.createdAt /\ InputPlace(a) < InputPlace(b)

\* C22: sortTasks returns tasks with canonical times ordered by time of day
\* ascending, then by priority weight descending (high 3, medium 2, low or
\* absent 1), then by createdAt ascending, and tasks tied on the three keys in
\* the order of the input; the string comparison of two canonical times agrees
\* with their minutes since midnight
C22_SortOrder ==
    /\ last.op \in {"sortTasks", "isTaskListSortedOfSorted", "sortTasksAgain"}
          => \A i, j \in 1..Len(last.result[1]) :
                i < j => Before(last.result[1][i], last.result[1][j])
    /\ \A i, j \in 1..Len(last.input) :
          /\ (localeCompare(last.input[i].time, last.input[j].time) < 0)
                <=> (TimeMinutes(last.input[i].time) < TimeMinutes(last.input[j].time))
          /\ (localeCompare(last.input[i].time, last.input[j].time) = 0)
                <=> (TimeMinutes(last.input[i].time) = TimeMinutes(last.input[j].time))

\* three tasks were sorted: the last of the input came first, and the two
\* others, tied on time, weight (one low, one without priority) and createdAt,
\* kept their order
C22_Witness ==
    /\ last.op = "sortTasks"
    /\ Len(last.input) = 3
    /\ last.result[1] = <<last.input[3], last.input[1], last.input[2]>>
    /\ last.input[1].time = last.input[2].time
    /\ last.input[1].priority = undefined
    /\ last.input[2].priority = "low"
    /\ last.input[1].createdAt = last.input[2].createdAt

\* the errors reported for a field
ErrorsOf(errors, field) == SelectSeq(errors, LAMBDA e : e.field = field)

\* C23: validateAndSanitizeTaskFormData validates the sanitized record, not
\* the form it was given: when the trimmed time parses, sanitizedData.time is
\* its canonical HH:MM form and no time error is reported; otherwise
\* sanitizedData.time is the trimmed input and a time error is reported;
\* sanitizedData.title is the title trimmed, its case and length untouched
C23_SanitizedIsValidated ==
    last.op = "validateAndSanitizeTaskFormData" =>
        /\ last.returned.errors = validateTaskFormData(last.returned.sanitizedData)
        /\ last.input.time.canonical # <<>> =>
              /\ last.returned.sanitizedData.time = last.input.time.canonical
              /\ ErrorsOf(last.returned.errors, "time") = <<>>
        /\ last.input.time.canonical = <<>> =>
              /\ last.returned.sanitizedData.time = trim(StringOrEmpty(last.input.time.value))
              /\ ErrorsOf(last.returned.errors, "time") # <<>>
        /\ last.returned.sanitizedData.title = last.input.title.trimmed
        /\ ~last.input.title.value.isString =>
              ErrorsOf(last.returned.errors, "title")
                 = <<ValidationError("title", "Title cannot be empty")>>

\* "  9:30 AM  " with a padded title was found valid, as "09:30" and the
\* trimmed title
C23_Witness ==
    /\ last.op = "validateAndSanitizeTaskFormData"
    /\ last.input.formData.time = StringValue(<<" ", " ", "9", ":", "3", "0", " ", "A", "M", " ", " ">>)
    /\ last.input.formData.title.isString
    /\ last.input.formData.title.chars # last.input.title.trimmed
    /\ last.returned.sanitizedData.time = <<"0", "9", ":", "3", "0">>
    /\ last.returned.isValid

\* what is wrong with a form that was typed, said without the validator
TypedTimeBad(input) == input.time.canonical = <<>>
TypedTitleBad(input) ==
    \/ ~input.title.value.isString
    \/ input.title.trimmed = <<>>
    \/ Len(input.title.trimmed) > MaxTitleLength
TypedPriorityBad(input) == input.formData.priority \notin {undefined, "low", "medium", "high"}

\* one error for the field if it is bad, none if it is not
OneErrorIfBad(errors, field, bad) ==
    Len(ErrorsOf(errors, field)) = IF bad THEN 1 ELSE 0

\* C24: for every form, the validator checks time, title and priority each on
\* its own and reports exactly one error for every field that is invalid and
\* none for a valid one; isValid is true exactly when the list of errors is
\* empty
C24_OneErrorPerInvalidField ==
    /\ last.op \in {"validateTaskFormData", "validateAndSanitizeTaskFormData"} =>
          /\ OneErrorIfBad(last.returned.errors, "time", TypedTimeBad(last.input))
          /\ OneErrorIfBad(last.returned.errors, "title", TypedTitleBad(last.input))
          /\ OneErrorIfBad(last.returned.errors, "priority", TypedPriorityBad(last.input))
          /\ \A k \in 1..Len(last.returned.errors) :
                last.returned.errors[k].field \in {"time", "title", "priority"}
    /\ last.op = "validateAndSanitizeTaskFormData" =>
          (last.returned.isValid <=> last.returned.errors = <<>>)
    /\ last.op = "isValidTaskFormData" =>
          (last.returned.isValid <=>
              ~(TypedTimeBad(last.input) \/ TypedTitleBad(last.input)
                   \/ TypedPriorityBad(last.input)))

\* a form with an empty time, a title of 201 characters and a priority that is
\* none was validated and got three errors
C24_Witness ==
    /\ last.op = "validateTaskFormData"
    /\ last.input.formData.time = StringValue(<<>>)
    /\ Len(last.input.title.trimmed) = MaxTitleLength + 1
    /\ last.input.formData.priority = "extreme"
    /\ Len(last.returned.errors) = 3

\* C25: update checks the data before it looks the id up: with invalid data it
\* fails with the validation failure whether the id is in the collection or
\* not; it fails with NotFound only when the data is valid and the id is not
\* in the collection; and in both cases neither the collection, the store nor
\* the error changes
C25_UpdateValidatesBeforeLookup ==
    [][ \A i \in TargetIds, d \in FormInputs, o \in WriteOutcomes :
          (last'.op = "update" /\ last'.arguments = [id |-> i, data |-> d]
             /\ UpdateTask(i, d, o))
          => /\ (TimeBad(d) \/ TitleBad(d) \/ PriorityBad(d))
                   => (last'.result = "validation" /\ last'.thrown # <<>>)
             /\ (~(TimeBad(d) \/ TitleBad(d) \/ PriorityBad(d)) /\ i \notin Ids(storedValue))
                   => last'.result = "notfound"
             /\ last'.result = "notfound"
                   => (~(TimeBad(d) \/ TitleBad(d) \/ PriorityBad(d)) /\ i \notin Ids(storedValue))
             /\ last'.result \in {"validation", "notfound"}
                   => /\ store' = store
                      /\ mounted' => (storedValue' = storedValue /\ error' = error) ]_vars

\* the task was created by an add of this page (its id came from generateTaskId)
CreatedByAdd(t) == t.id \in 1..MaxIds

\* task a was added before task b: ids are handed out in the order of the adds
AddedBefore(a, b) == a.id < b.id

\* C26: after any sequence of adds, updates and deletes, two tasks of the
\* collection with the same time and the same priority weight stand in the
\* order in which add created them, also when their createdAt are equal and
\* after an update has moved one of them away from that time and back
C26_TiesInCreationOrder ==
    mounted =>
        \A i, j \in 1..Len(storedValue) :
            (/\ i < j
             /\ CreatedByAdd(storedValue[i]) /\ CreatedByAdd(storedValue[j])
             /\ storedValue[i].time = storedValue[j].time
             /\ Weight(storedValue[i].priority) = Weight(storedValue[j].priority))
            => ~AddedBefore(storedValue[j], storedValue[i])

\* the load effect runs again: the store was loaded before, since the mount or
\* the last reload
LoadedBefore == last.op \notin {"mount", "reload"}

\* C27: after the initial load the collection changes only by add, update,
\* delete and clearAll: a render alone does not change it, and the store is
\* not read again so as to put what it holds in the place of the collection
\* in memory (one kept after a failed write, say)
C27_OnlyOperationsChangeCollection ==
    [][ (LoadedBefore /\ mounted /\ last'.op \notin Operations \cup {"reload"})
            => storedValue' = storedValue ]_vars

\* C28: the initial load settles: whatever the store holds under the key
\* (nothing, a JSON array, or text that does not parse), constructing the
\* repository leads, after finitely many store reads and state updates, to a
\* state in which no effect is due and nothing changes until an operation is
\* called (a store whose removeItem throws is left aside)
C28_InitialLoadSettles ==
    (last.op \in {"mount", "reload"})
        ~> (mounted /\ (~effectPending \/ error = ErrInaccessible))

\* C29: isTaskListSorted is the membership test of the order of sortTasks:
\* for every task array x, isTaskListSorted(sortTasks(x)) is true, and
\* isTaskListSorted(x) is true exactly when sortTasks(x) has the tasks in the
\* order of x
C29_SortedIffSortKeepsOrder ==
    /\ last.op \in {"isTaskListSortedOfSorted", "sortTasksAgain"}
          => last.resultSorted[1]
    /\ last.op \in {"sortTasks", "isTaskListSortedOfSorted", "sortTasksAgain"}
          => (last.inputSorted[1] <=> last.result[1] = last.input)

\* an array of three tasks whose last two, tied on time and priority, stood
\* against their createdAt was found not sorted, and its sorted array sorted
C29_Witness ==
    /\ last.op = "isTaskListSortedOfSorted"
    /\ Len(last.input) = 3
    /\ last.resultSorted[1]
    /\ ~last.inputSorted[1]
    /\ last.input[2].time = last.input[3].time
    /\ last.input[2].priority = last.input[3].priority
    /\ last.input[2].createdAt > last.input[3].createdAt
    /\ last.input[1].time # last.input[2].time

\* React has nothing left to do: it renders and runs effects until none is due
RECURSIVE Settle(_)
Settle(ui) ==
    IF ~ui.mounted THEN ui
    ELSE IF ui.effectPending THEN Settle(LoadEffectRuns(ui))
    ELSE IF ui.renderDue THEN Settle(AppRenders(ui))
    ELSE ui

\* the requests from the k-th on made one after the other: each handler is
\* called when React has settled and has resumed before the next is called
RECURSIVE OneAfterTheOther(_, _, _)
OneAfterTheOther(ui, done, k) ==
    IF k > Len(done) \/ ~ui.mounted THEN ui
    ELSE OneAfterTheOther(
             Settle(HandlerResumes(Settle(HandlerStarts(ui, done[k].request.kind)),
                                   done[k].request, done[k].outcome)),
             done, k + 1)

\* the collection the page shows, if it still shows one
Shown(ui) == IF ui.mounted THEN <<ui.storedValue>> ELSE <<>>

\* every request was started when React had settled and no other was
\* waiting, or while others were waiting, and then it or each of the others
\* was an add
OverlapsOfAdds(done) ==
    \A k \in 1..Len(done) :
        /\ done[k].request.overlaps = {} => done[k].request.settled
        /\ \A kind \in done[k].request.overlaps : done[k].request.kind = "add" \/ kind = "add"

Overlapped(done) == \E k \in 1..Len(done) : done[k].request.overlaps # {}

====
